---------------------------- MODULE Spec2Model ----------------------------
(***************************************************************************)
(* Flash record manager of the Raspberry Pi Pico flash operations library  *)
(* (flash_ops.c, flash_ops_helper.c).                                      *)
(*                                                                         *)
(* One block (sector) of flash holds one flash_data header.  The public    *)
(* operations validate a logical offset, and flash_write_safe and          *)
(* flash_erase_safe then run an erase + program pair with interrupts       *)
(* disabled.  The erase and the program are separate steps of the model,   *)
(* so that a reset can fall between them.                                  *)
(*                                                                         *)
(* uint32_t and size_t are 32 bits wide on the RP2040.  A 32-bit word is   *)
(* held as the integer its bit pattern denotes in two's complement:        *)
(* 0 .. 2^31-1 stand for themselves and -2^31 .. -1 stand for              *)
(* 2^31 .. 2^32-1, so 0xFFFFFFFF is -1 (as in the source's comparison      *)
(* write_count == -1).  Add32 and Gt32 are addition modulo 2^32 and the    *)
(* unsigned order on these patterns.                                       *)
(***************************************************************************)
EXTENDS Integers, Sequences, FiniteSets, TLC

(***************************************************************************)
(* Bounds of the model.                                                    *)
(***************************************************************************)
\* the blocks are written at most MaxWrites times in all
MaxWrites == 2
\* size in bytes of the caller's RAM buffer `data`
MaxLen == 2

(***************************************************************************)
(* 32-bit words.                                                           *)
(***************************************************************************)
MaxInt32 == 2147483647
MinInt32 == (-MaxInt32) - 1

\* uint32_t addition: (a + b) mod 2^32 on bit patterns
Add32(a, b) ==
    IF a >= 0 /\ b >= 0 /\ a > MaxInt32 - b
    THEN (a + MinInt32) + (b + MinInt32)
    ELSE IF a < 0 /\ b < 0 /\ a < MinInt32 - b
         THEN (a - MinInt32) + (b - MinInt32)
         ELSE a + b

\* unsigned a > b on bit patterns
Gt32(a, b) == IF (a >= 0) = (b >= 0) THEN a > b ELSE a < 0

(***************************************************************************)
(* Device geometry.                                                        *)
(***************************************************************************)
FLASH_SECTOR_SIZE == 4096
FLASH_TARGET_OFFSET == 256 * 1024
FLASH_SIZE == 2 * 1024 * 1024
\* sizeof(flash_data): bool + padding, uint32_t, size_t, pointer
METADATA_SIZE == 16

\* largest data_len flash_write_safe accepts
MaxPayload == FLASH_SECTOR_SIZE - METADATA_SIZE

\* variant: the start of the sector after the one flash_offset lies in
SectorStartNext(a) == a - (a % FLASH_SECTOR_SIZE) + FLASH_SECTOR_SIZE

\* flash_offset & ~(FLASH_SECTOR_SIZE - 1)
SectorStart(a) == a - (a % FLASH_SECTOR_SIZE)

(***************************************************************************)
(* Caller memory.  A pointer is the name of the buffer it points to.       *)
(* "data" is a RAM buffer of MaxLen bytes the caller may overwrite at any  *)
(* time, "const_data" a constant array of MaxPayload + 1 bytes.  NULL and  *)
(* WILD (0xFFFFFFFF, the pointer field of an erased block) point to no     *)
(* buffer.                                                                 *)
(***************************************************************************)
Bytes == {171, 205}
NULL == "NULL"
WILD == "0xFFFFFFFF"
RamBufs == {"data"}
RamContents == [1..MaxLen -> Bytes]

\* sizeof(DeviceConfig): uint32_t, float, char[10], padded to a multiple of 4
SizeofDeviceConfig == 20
\* the buffer test_save_and_recover_struct serializes a DeviceConfig into
ConfigBuffer == "device_config_buffer"

\* byte i of the buffer p points to; every byte of const_data is 0xCD
ByteAt(mem, p, i) == IF p \in DOMAIN mem THEN mem[p][i] ELSE 205
BufSize(p) == IF p \in RamBufs THEN MaxLen
              ELSE IF p = ConfigBuffer THEN SizeofDeviceConfig
              ELSE MaxPayload + 1
Mapped(p) == p \in RamBufs \cup {"const_data", ConfigBuffer}

\* the first n bytes of buffer p of mem as a sequence
Payload(mem, p, n) == [i \in 1..n |-> ByteAt(mem, p, i)]

\* memcpy(old, p, n): n bytes from p, then the bytes of old behind them
Memcpy(old, mem, p, n) ==
    [i \in 1..Len(old) |-> IF i <= n THEN ByteAt(mem, p, i) ELSE old[i]]
Zeros(n) == [i \in 1..n |-> 0]

(***************************************************************************)
(* A block of flash: the flash_data header at its start and `tail`, the    *)
(* bytes programmed behind the header (<< >>: still erased).  Erased flash *)
(* reads as all-ones.                                                      *)
(***************************************************************************)
Erased == [valid |-> 255, write_count |-> -1, data_len |-> -1,
           data_ptr |-> WILD, tail |-> << >>]

\* the logical offsets the operations are called with
AlignedOffsets == {FLASH_SECTOR_SIZE, -FLASH_TARGET_OFFSET}
Offsets == AlignedOffsets \cup
           {6096, FLASH_SIZE, FLASH_SIZE + FLASH_SECTOR_SIZE, FLASH_SIZE + 1}

\* the sectors these offsets fall into
Sectors == {SectorStart(Add32(FLASH_TARGET_OFFSET, o)) : o \in Offsets}

(***************************************************************************)
(* The SDK primitives.                                                     *)
(***************************************************************************)
\* variant: the erase has no effect
flash_range_erase_Nothing(fl, flash_offs) == fl

\* variant: every block is erased, not only the one at flash_offs
flash_range_erase_All(fl, flash_offs) == [s \in DOMAIN fl |-> Erased]

\* flash_range_erase(flash_offs, FLASH_SECTOR_SIZE)
flash_range_erase(fl, flash_offs) ==
    [s \in DOMAIN fl |->
        IF s >= flash_offs /\ s < flash_offs + FLASH_SECTOR_SIZE
        THEN Erased ELSE fl[s]]

\* flash_range_program(flash_offs, (const uint8_t *)hdr, METADATA_SIZE): the
\* header bytes only; the block was erased before, so the bits take the
\* programmed values
flash_range_program(fl, flash_offs, hdr) ==
    [fl EXCEPT ![flash_offs] =
        [valid |-> hdr.valid, write_count |-> hdr.write_count,
         data_len |-> hdr.data_len, data_ptr |-> hdr.data_ptr,
         tail |-> << >>]]

\* memcpy(&header, (const void *)(XIP_BASE + a), METADATA_SIZE): the header of
\* the block that starts at a; anywhere else the bytes are erased ones, since
\* nothing is programmed behind the headers
ReadMapped(fl, a) == IF a \in DOMAIN fl THEN fl[a] ELSE Erased

VARIABLES
    flash,   \* Sectors -> block
    ram,     \* RamBufs -> contents of the caller's RAM buffers
    irq,     \* TRUE: interrupts enabled
    pc,      \* position inside flash_write_safe_struct / flash_erase_safe
    frame,   \* locals of the running erase + program pair
    op,      \* the call made last
    res,     \* its outcome
    calls,   \* the primitives it invoked, in order, with the interrupt calls
    pre,     \* flash when it was entered
    out,     \* the caller's destination buffer after flash_read_safe
    ret,     \* the value returned by get_flash_write_count / _data_length
    codec,   \* a run of serialize_flash_data / deserialize_flash_data
    nest     \* the calls pre-empted by an interrupt handler that writes

vars == <<flash, ram, irq, pc, frame, op, res, calls, pre, out, ret, codec,
          nest>>

Errors == {"NullOrEmptyPayload", "MisalignedOffset", "PayloadTooLarge",
           "OutOfRange", "InvalidOrUninitialized"}

NoFrame == [offset |-> 0, hdr |-> Erased, ints |-> TRUE]
NoOp == [name |-> "none", offset |-> 0, data |-> NULL, len |-> 0]

\* no codec run
NoCodec == [step |-> "none"]

\* no call pre-empted: suspended holds the pre-empted contexts, innermost
\* last; entered counts, per block, the flash_write_safe calls that passed
\* validation; nested tells that one of them was made by a handler while
\* a call on the same block was pre-empted
NoNest == [suspended |-> << >>, entered |-> [s \in Sectors |-> 0],
           nested |-> FALSE]

DeviceInit ==
    /\ flash = [s \in Sectors |-> Erased]
    /\ ram \in [RamBufs -> RamContents]
    /\ irq = TRUE
    /\ pc = "idle"
    /\ frame = NoFrame
    /\ op = NoOp
    /\ res = "none"
    /\ calls = << >>
    /\ pre = flash
    /\ out = << >>
    /\ ret = 0
    /\ nest = NoNest

Init == DeviceInit /\ codec = NoCodec

(***************************************************************************)
(* Validation.                                                             *)
(***************************************************************************)
\* variant: the alignment test left out
MisalignedOmitted(flash_offset) == FALSE

Misaligned(flash_offset) == flash_offset % FLASH_SECTOR_SIZE # 0

\* flash_offset + METADATA_SIZE > FLASH_TARGET_OFFSET + FLASH_SIZE
BeyondLimits(flash_offset) ==
    Gt32(Add32(flash_offset, METADATA_SIZE), Add32(FLASH_TARGET_OFFSET, FLASH_SIZE))

\* variant: the size test compares with the sector size, metadata forgotten
WriteCheckNoMetadata(flash_offset, data, data_len) ==
    IF data = NULL \/ data_len = 0 THEN "NullOrEmptyPayload"
    ELSE IF Misaligned(flash_offset) THEN "MisalignedOffset"
    ELSE IF Gt32(data_len, FLASH_SECTOR_SIZE) THEN "PayloadTooLarge"
    ELSE IF BeyondLimits(flash_offset) THEN "OutOfRange"
    ELSE "OK"

\* variant: the test for data_len == 0 left out
WriteCheckNoEmpty(flash_offset, data, data_len) ==
    IF data = NULL THEN "NullOrEmptyPayload"
    ELSE IF Misaligned(flash_offset) THEN "MisalignedOffset"
    ELSE IF Gt32(data_len, MaxPayload) THEN "PayloadTooLarge"
    ELSE IF BeyondLimits(flash_offset) THEN "OutOfRange"
    ELSE "OK"

\* variant: the range test made before the size test
WriteCheckRangeFirst(flash_offset, data, data_len) ==
    IF data = NULL \/ data_len = 0 THEN "NullOrEmptyPayload"
    ELSE IF Misaligned(flash_offset) THEN "MisalignedOffset"
    ELSE IF BeyondLimits(flash_offset) THEN "OutOfRange"
    ELSE IF Gt32(data_len, MaxPayload) THEN "PayloadTooLarge"
    ELSE "OK"

\* the checks of flash_write_safe, in the order of the code
WriteCheck(flash_offset, data, data_len) ==
    IF data = NULL \/ data_len = 0 THEN "NullOrEmptyPayload"
    ELSE IF Misaligned(flash_offset) THEN "MisalignedOffset"
    ELSE IF Gt32(data_len, MaxPayload) THEN "PayloadTooLarge"
    ELSE IF BeyondLimits(flash_offset) THEN "OutOfRange"
    ELSE "OK"

\* the checks of flash_read_safe, flash_erase_safe and the two queries
OffsetCheck(flash_offset) ==
    IF Misaligned(flash_offset) THEN "MisalignedOffset"
    ELSE IF BeyondLimits(flash_offset) THEN "OutOfRange"
    ELSE "OK"

\* the arguments flash_write_safe is called with
DataArgs ==
    {<<NULL, 1>>, <<"const_data", MaxPayload>>, <<"const_data", MaxPayload + 1>>}
    \cup {<<"data", n>> : n \in 0..MaxLen}

\* the buffer_len arguments of flash_read_safe
BufferLens == 1..(MaxLen + 1)

(***************************************************************************)
(* flash_write_safe, up to the erase inside flash_write_safe_struct.       *)
(***************************************************************************)
\* variant: the all-ones word of an erased block taken as a count
NextWriteCountNoSentinel(cur) == Add32(cur, 1)

\* variant: the increment left out
NextWriteCountNoIncrement(cur) == IF cur = -1 THEN 0 ELSE cur

\* write_count of the new record, from the header found in the block
NextWriteCount(cur) == Add32(IF cur = -1 THEN 0 ELSE cur, 1)

\* variant: new_data->valid = true left out (the flag stays as
\* flash_write_safe left it, here 0)
NewDataNotValid(current_data, data, data_len) ==
    [valid |-> 0,
     write_count |-> NextWriteCount(current_data.write_count),
     data_len |-> data_len,
     data_ptr |-> data]

\* variant: the data_len of the record found in the block is kept
NewDataStaleLen(current_data, data, data_len) ==
    [valid |-> 1,
     write_count |-> NextWriteCount(current_data.write_count),
     data_len |-> current_data.data_len,
     data_ptr |-> data]

\* new_data as flash_write_safe_struct programs it: current_data is the
\* header found in the block
NewData(current_data, data, data_len) ==
    [valid |-> 1,
     write_count |-> NextWriteCount(current_data.write_count),
     data_len |-> data_len,
     data_ptr |-> data]

\* the writes the headers in flash account for
RECURSIVE Written(_, _)
Written(fl, S) ==
    IF S = {} THEN 0
    ELSE LET s == CHOOSE x \in S : TRUE
         IN  (IF fl[s].write_count = -1 THEN 0 ELSE fl[s].write_count)
             + Written(fl, S \ {s})

WithinBound(fl) == Written(fl, DOMAIN fl) < MaxWrites

flash_write_safe(offset, data, data_len) ==
    LET flash_offset == Add32(FLASH_TARGET_OFFSET, offset)
        err == WriteCheck(flash_offset, data, data_len)
    IN  /\ pc = "idle"
        /\ op' = [name |-> "flash_write_safe", offset |-> offset,
                  data |-> data, len |-> data_len]
        /\ pre' = flash
        /\ IF err # "OK"
           THEN /\ res' = err
                /\ calls' = << >>
                /\ UNCHANGED <<irq, pc, frame>>
           ELSE /\ WithinBound(flash)
                /\ irq' = FALSE
                /\ frame' = [offset |-> flash_offset,
                             hdr |-> NewData(ReadMapped(flash, flash_offset),
                                             data, data_len),
                             ints |-> irq]
                /\ pc' = "write_erase"
                /\ res' = "running"
                /\ calls' = << <<"disable", flash_offset>>,
                              <<"read", flash_offset>> >>
        /\ out' = << >>
        /\ ret' = 0
        /\ UNCHANGED <<flash, ram, codec, nest>>

\* flash_write_safe_struct(offset, new_data) called by the application
\* itself, up to its erase: offset is an offset into flash, and no argument
\* is checked
flash_write_safe_struct(offset, data, data_len) ==
    /\ pc = "idle"
    /\ WithinBound(flash)
    /\ op' = [name |-> "flash_write_safe_struct", offset |-> offset,
              data |-> data, len |-> data_len]
    /\ pre' = flash
    /\ irq' = FALSE
    /\ frame' = [offset |-> offset,
                 hdr |-> NewData(ReadMapped(flash, offset), data, data_len),
                 ints |-> irq]
    /\ pc' = "write_erase"
    /\ res' = "running"
    /\ calls' = << <<"disable", offset>>, <<"read", offset>> >>
    /\ out' = << >>
    /\ ret' = 0
    /\ UNCHANGED <<flash, ram, codec, nest>>

\* the offsets such a call is made with: a block of the target region, and
\* the sector behind its end
DirectOffsets == {FLASH_TARGET_OFFSET + FLASH_SECTOR_SIZE,
                  FLASH_TARGET_OFFSET + FLASH_SIZE}

\* and the data_ptr and data_len of its new_data
DirectData == {<<"data", 1>>, <<"const_data", MaxPayload + 1>>}

\* variant: interrupts restored after the erase, before the program
WriteEraseRestores ==
    /\ pc = "write_erase"
    /\ flash' = flash_range_erase(flash, frame.offset)
    /\ calls' = calls \o << <<"erase", frame.offset>>,
                            <<"restore", frame.offset>> >>
    /\ irq' = frame.ints
    /\ pc' = "write_program"
    /\ UNCHANGED <<ram, frame, op, res, pre, out, ret, codec, nest>>

\* variant: the block is programmed without having been erased
WriteEraseOmitted ==
    /\ pc = "write_erase"
    /\ pc' = "write_program"
    /\ UNCHANGED <<flash, ram, irq, frame, op, res, calls, pre, out, ret, codec, nest>>

\* flash_range_erase(offset, FLASH_SECTOR_SIZE) of flash_write_safe_struct
WriteErase ==
    /\ pc = "write_erase"
    /\ flash' = flash_range_erase(flash, frame.offset)
    /\ calls' = Append(calls, <<"erase", frame.offset>>)
    /\ pc' = "write_program"
    /\ UNCHANGED <<ram, irq, frame, op, res, pre, out, ret, codec, nest>>

\* variant: restore_interrupts(ints) left out
WriteProgramNoRestore ==
    /\ pc = "write_program"
    /\ flash' = flash_range_program(flash, frame.offset, frame.hdr)
    /\ calls' = Append(calls, <<"program", frame.offset>>)
    /\ pc' = "idle"
    /\ frame' = NoFrame
    /\ res' = "OK"
    /\ UNCHANGED <<ram, irq, op, pre, out, ret, codec, nest>>

\* flash_range_program(offset, new_data, METADATA_SIZE); restore_interrupts
WriteProgram ==
    /\ pc = "write_program"
    /\ flash' = flash_range_program(flash, frame.offset, frame.hdr)
    /\ calls' = calls \o << <<"program", frame.offset>>,
                            <<"restore", frame.offset>> >>
    /\ irq' = frame.ints
    /\ pc' = "idle"
    /\ frame' = NoFrame
    /\ res' = "OK"
    /\ UNCHANGED <<ram, op, pre, out, ret, codec, nest>>

(***************************************************************************)
(* flash_read_safe.                                                        *)
(***************************************************************************)
\* flash_read_safe_struct(offset, data): the header at offset, or data as it
\* was when the offset is beyond the limits
flash_read_safe_struct(fl, offset, data) ==
    IF BeyondLimits(offset) THEN data ELSE ReadMapped(fl, offset)

\* the values !flashData.valid can take: the byte of an erased block is
\* neither 0 nor 1, and the test of such a bool is undefined
NotValid(v) == IF v = 0 THEN {TRUE} ELSE IF v = 1 THEN {FALSE} ELSE BOOLEAN

\* variant: buffer_len bytes are copied, whatever data_len is
ReadOutcomesNoMin(fl, mem, offset, buffer_len) ==
    LET flash_offset == Add32(FLASH_TARGET_OFFSET, offset)
        err == OffsetCheck(flash_offset)
        buffer == Zeros(buffer_len)
        flashData == flash_read_safe_struct(fl, flash_offset,
                         [valid |-> 0, write_count |-> 0, data_len |-> 0,
                          data_ptr |-> NULL, tail |-> << >>])
        n == buffer_len
    IN  IF err # "OK" THEN {[res |-> err, out |-> buffer]}
        ELSE UNION {
            IF nv \/ flashData.data_len = 0
            THEN {[res |-> "InvalidOrUninitialized", out |-> buffer]}
            ELSE IF Mapped(flashData.data_ptr) /\ n <= BufSize(flashData.data_ptr)
            THEN {[res |-> "OK",
                   out |-> Memcpy(buffer, mem, flashData.data_ptr, n)]}
            ELSE {[res |-> "Fault", out |-> buffer]} \cup
                 {[res |-> "OK",
                   out |-> [i \in 1..buffer_len |-> IF i <= n THEN b ELSE 0]] :
                      b \in Bytes}
            : nv \in NotValid(flashData.valid)}

\* the outcomes of flash_read_safe(offset, buffer, buffer_len) on a buffer
\* the caller has zeroed
ReadOutcomes(fl, mem, offset, buffer_len) ==
    LET flash_offset == Add32(FLASH_TARGET_OFFSET, offset)
        err == OffsetCheck(flash_offset)
        buffer == Zeros(buffer_len)
        flashData == flash_read_safe_struct(fl, flash_offset,
                         [valid |-> 0, write_count |-> 0, data_len |-> 0,
                          data_ptr |-> NULL, tail |-> << >>])
        n == IF Gt32(buffer_len, flashData.data_len)
             THEN flashData.data_len ELSE buffer_len
    IN  IF err # "OK" THEN {[res |-> err, out |-> buffer]}
        ELSE UNION {
            IF nv \/ flashData.data_len = 0
            THEN {[res |-> "InvalidOrUninitialized", out |-> buffer]}
            ELSE IF Mapped(flashData.data_ptr) /\ n <= BufSize(flashData.data_ptr)
            THEN {[res |-> "OK",
                   out |-> Memcpy(buffer, mem, flashData.data_ptr, n)]}
            \* memcpy from a pointer that points to no buffer: a fault, or
            \* whatever bytes are found there
            ELSE {[res |-> "Fault", out |-> buffer]} \cup
                 {[res |-> "OK",
                   out |-> [i \in 1..buffer_len |-> IF i <= n THEN b ELSE 0]] :
                      b \in Bytes}
            : nv \in NotValid(flashData.valid)}

flash_read_safe(offset, buffer_len) ==
    LET flash_offset == Add32(FLASH_TARGET_OFFSET, offset)
    IN  /\ pc = "idle"
        /\ \E r \in ReadOutcomes(flash, ram, offset, buffer_len) :
               /\ res' = r.res
               /\ out' = r.out
        /\ op' = [name |-> "flash_read_safe", offset |-> offset,
                  data |-> NULL, len |-> buffer_len]
        /\ pre' = flash
        /\ calls' = IF OffsetCheck(flash_offset) = "OK"
                    THEN << <<"read", flash_offset>> >> ELSE << >>
        /\ ret' = 0
        /\ UNCHANGED <<flash, ram, irq, pc, frame, codec, nest>>

(***************************************************************************)
(* get_flash_write_count and get_flash_data_length.                        *)
(***************************************************************************)
\* variant: the field is returned without the offset being checked
WriteCountOfUnchecked(fl, offset) ==
    LET flash_offset == Add32(FLASH_TARGET_OFFSET, offset)
    IN  ReadMapped(fl, flash_offset).write_count

\* the value get_flash_write_count(offset) returns
WriteCountOf(fl, offset) ==
    LET flash_offset == Add32(FLASH_TARGET_OFFSET, offset)
    IN  IF OffsetCheck(flash_offset) # "OK" THEN 0
        ELSE ReadMapped(fl, flash_offset).write_count

\* the value get_flash_data_length(offset) returns
DataLengthOf(fl, offset) ==
    LET flash_offset == Add32(FLASH_TARGET_OFFSET, offset)
    IN  IF OffsetCheck(flash_offset) # "OK" THEN 0
        ELSE ReadMapped(fl, flash_offset).data_len

\* variant: the header read with interrupts disabled, and not restored
QueryDisablesInterrupts(name, offset, value) ==
    LET flash_offset == Add32(FLASH_TARGET_OFFSET, offset)
    IN  /\ pc = "idle"
        /\ op' = [name |-> name, offset |-> offset, data |-> NULL, len |-> 0]
        /\ res' = OffsetCheck(flash_offset)
        /\ ret' = value
        /\ calls' = IF OffsetCheck(flash_offset) = "OK"
                    THEN << <<"disable", flash_offset>>,
                            <<"read", flash_offset>> >>
                    ELSE << >>
        /\ irq' = (OffsetCheck(flash_offset) # "OK" /\ irq)
        /\ pre' = flash
        /\ out' = << >>
        /\ UNCHANGED <<flash, ram, pc, frame, codec, nest>>

Query(name, offset, value) ==
    LET flash_offset == Add32(FLASH_TARGET_OFFSET, offset)
    IN  /\ pc = "idle"
        /\ op' = [name |-> name, offset |-> offset, data |-> NULL, len |-> 0]
        /\ res' = OffsetCheck(flash_offset)
        /\ ret' = value
        /\ calls' = IF OffsetCheck(flash_offset) = "OK"
                    THEN << <<"read", flash_offset>> >> ELSE << >>
        /\ pre' = flash
        /\ out' = << >>
        /\ UNCHANGED <<flash, ram, irq, pc, frame, codec, nest>>

get_flash_write_count(offset) ==
    Query("get_flash_write_count", offset, WriteCountOf(flash, offset))

get_flash_data_length(offset) ==
    Query("get_flash_data_length", offset, DataLengthOf(flash, offset))

(***************************************************************************)
(* flash_erase_safe.                                                       *)
(***************************************************************************)
\* variant: the write count starts again at 0
MetadataCountReset(metadata_backup) ==
    [valid |-> 0, write_count |-> 0, data_len |-> 0, data_ptr |-> NULL]

\* variant: data_len restored with the write count (as OLDflash_ops.c did)
MetadataKeepsLength(metadata_backup) ==
    [valid |-> 0, write_count |-> metadata_backup.write_count,
     data_len |-> metadata_backup.data_len, data_ptr |-> NULL]

\* variant: the erase counted as a write
MetadataCountsErase(metadata_backup) ==
    [valid |-> 0, write_count |-> Add32(metadata_backup.write_count, 1),
     data_len |-> 0, data_ptr |-> NULL]

\* metadata_to_restore, from the header backed up before the erase
MetadataToRestore(metadata_backup) ==
    [valid |-> 0, write_count |-> metadata_backup.write_count,
     data_len |-> 0, data_ptr |-> NULL]

\* variant: the sector start compared with the start of the target region
SectorBeyondWrongBound(sector_start) == ~Gt32(FLASH_TARGET_OFFSET, sector_start)

\* sector_start >= FLASH_TARGET_OFFSET + FLASH_SIZE, the test flash_erase_safe
\* makes with interrupts disabled
SectorBeyond(sector_start) ==
    ~Gt32(Add32(FLASH_TARGET_OFFSET, FLASH_SIZE), sector_start)

\* variant: the sector is erased before the offset is checked
flash_erase_safe_EraseFirst(offset) ==
    LET flash_offset == Add32(FLASH_TARGET_OFFSET, offset)
        err == OffsetCheck(flash_offset)
        sector_start == SectorStart(flash_offset)
    IN  /\ pc = "idle"
        /\ op' = [name |-> "flash_erase_safe", offset |-> offset,
                  data |-> NULL, len |-> 0]
        /\ pre' = flash
        /\ IF err # "OK"
           THEN /\ res' = err
                /\ calls' = << <<"erase", sector_start>> >>
                /\ flash' = flash_range_erase(flash, sector_start)
                /\ UNCHANGED <<irq, pc, frame>>
           ELSE /\ irq' = FALSE
                /\ frame' = [offset |-> sector_start,
                             hdr |-> MetadataToRestore(ReadMapped(flash, sector_start)),
                             ints |-> irq]
                /\ pc' = "erase_erase"
                /\ res' = "running"
                /\ calls' = << <<"disable", sector_start>>,
                              <<"read", sector_start>> >>
                /\ flash' = flash
        /\ out' = << >>
        /\ ret' = 0
        /\ UNCHANGED <<ram, codec, nest>>

flash_erase_safe(offset) ==
    LET flash_offset == Add32(FLASH_TARGET_OFFSET, offset)
        err == OffsetCheck(flash_offset)
        sector_start == SectorStart(flash_offset)
    IN  /\ pc = "idle"
        /\ op' = [name |-> "flash_erase_safe", offset |-> offset,
                  data |-> NULL, len |-> 0]
        /\ pre' = flash
        /\ IF err # "OK"
           THEN /\ res' = err
                /\ calls' = << >>
                /\ UNCHANGED <<irq, pc, frame>>
           ELSE IF SectorBeyond(sector_start)
           \* interrupts were disabled, and are restored before the return
           THEN /\ res' = "OutOfRange"
                /\ calls' = << <<"disable", sector_start>>,
                              <<"restore", sector_start>> >>
                /\ UNCHANGED <<irq, pc, frame>>
           ELSE /\ irq' = FALSE
                /\ frame' = [offset |-> sector_start,
                             hdr |-> MetadataToRestore(ReadMapped(flash, sector_start)),
                             ints |-> irq]
                /\ pc' = "erase_erase"
                /\ res' = "running"
                /\ calls' = << <<"disable", sector_start>>,
                              <<"read", sector_start>> >>
        /\ out' = << >>
        /\ ret' = 0
        /\ UNCHANGED <<flash, ram, codec, nest>>

\* flash_range_erase(sector_start, FLASH_SECTOR_SIZE) of flash_erase_safe
EraseErase ==
    /\ pc = "erase_erase"
    /\ flash' = flash_range_erase(flash, frame.offset)
    /\ calls' = Append(calls, <<"erase", frame.offset>>)
    /\ pc' = "erase_program"
    /\ UNCHANGED <<ram, irq, frame, op, res, pre, out, ret, codec, nest>>

\* flash_range_program(sector_start, &metadata_to_restore, sizeof(flash_data));
\* restore_interrupts
EraseProgram ==
    /\ pc = "erase_program"
    /\ flash' = flash_range_program(flash, frame.offset, frame.hdr)
    /\ calls' = calls \o << <<"program", frame.offset>>,
                            <<"restore", frame.offset>> >>
    /\ irq' = frame.ints
    /\ pc' = "idle"
    /\ frame' = NoFrame
    /\ res' = "OK"
    /\ UNCHANGED <<ram, op, pre, out, ret, codec, nest>>

(***************************************************************************)
(* The environment: the caller reuses its RAM buffer, and the board is     *)
(* reset or loses power (RAM is lost, flash stays).                        *)
(***************************************************************************)
CallerStore(b, c) ==
    /\ pc = "idle"
    /\ c # ram[b]
    /\ ram' = [ram EXCEPT ![b] = c]
    /\ op' = [name |-> "caller_store", offset |-> 0, data |-> b, len |-> 0]
    /\ res' = "none"
    /\ calls' = << >>
    /\ pre' = flash
    /\ out' = << >>
    /\ ret' = 0
    /\ UNCHANGED <<flash, irq, pc, frame, codec, nest>>

\* op, res and pre keep the record of an operation the reset cut off: its
\* offset, the step it had not yet made, and flash as it was at its entry
Reset ==
    /\ ram' \in [RamBufs -> RamContents]
    /\ irq' = TRUE
    /\ pc' = "idle"
    /\ frame' = NoFrame
    /\ op' = [name |-> "reset", offset |-> IF pc = "idle" THEN 0 ELSE op.offset,
              data |-> NULL, len |-> 0]
    /\ res' = IF pc = "idle" THEN "none" ELSE pc
    /\ calls' = << >>
    /\ pre' = IF pc = "idle" THEN flash ELSE pre
    /\ out' = << >>
    /\ ret' = 0
    /\ UNCHANGED <<flash, codec, nest>>

Next ==
    \/ \E o \in Offsets, d \in DataArgs : flash_write_safe(o, d[1], d[2])
    \/ WriteErase
    \/ WriteProgram
    \/ \E o \in Offsets, n \in BufferLens : flash_read_safe(o, n)
    \/ \E o \in Offsets : get_flash_write_count(o)
    \/ \E o \in Offsets : get_flash_data_length(o)
    \/ \E o \in Offsets : flash_erase_safe(o)
    \/ EraseErase
    \/ EraseProgram
    \/ \E b \in RamBufs, c \in RamContents : CallerStore(b, c)
    \/ Reset

Spec == Init /\ [][Next]_vars

\* the library with flash_write_safe_struct, which flash_ops.h declares,
\* called by the application as well
DirectNext ==
    \/ Next
    \/ \E o \in DirectOffsets, d \in DirectData : flash_write_safe_struct(o, d[1], d[2])

DirectSpec == Init /\ [][DirectNext]_vars

\* once entered, the erase + program pair runs to its end: the code between
\* save_and_disable_interrupts and restore_interrupts neither waits nor loops
Running == WriteErase \/ WriteProgram \/ EraseErase \/ EraseProgram

\* the operations that touch the interrupt state, and the reset
FairNext ==
    \/ \E o \in Offsets, d \in DataArgs : flash_write_safe(o, d[1], d[2])
    \/ WriteErase
    \/ WriteProgram
    \/ \E o \in Offsets : flash_erase_safe(o)
    \/ EraseErase
    \/ EraseProgram
    \/ Reset

FairSpec == Init /\ [][FairNext]_vars /\ WF_vars(Running)

(***************************************************************************)
(* The record codec of flash_ops_helper.c.  serialize_flash_data lays a     *)
(* flash_data out in a byte buffer: valid, write_count, data_len as they   *)
(* lie in memory (little-endian words), then the data_len bytes data_ptr   *)
(* points to.  deserialize_flash_data reads the fields back and copies the *)
(* payload into a block it allocates.                                      *)
(***************************************************************************)
\* sizeof(data->valid); sizeof(data->write_count) and sizeof(data->data_len)
SizeofValid == 1
SizeofWord == 4
SerialHeader == SizeofValid + SizeofWord + SizeofWord

\* the four bytes of a 32-bit word, in memory order
Bytes32(w) ==
    LET lo == IF w < 0 THEN w - MinInt32 ELSE w
    IN  << lo % 256, (lo \div 256) % 256, (lo \div 65536) % 256,
           (lo \div 16777216) + (IF w < 0 THEN 128 ELSE 0) >>

\* variant: the bytes taken in the opposite order
Word32BigEndian(b) ==
    LET lo == b[4] + 256 * b[3] + 65536 * b[2] + 16777216 * (b[1] % 128)
    IN  IF b[1] >= 128 THEN lo + MinInt32 ELSE lo

\* the 32-bit word four bytes in memory order stand for
Word32(b) ==
    LET lo == b[1] + 256 * b[2] + 65536 * b[3] + 16777216 * (b[4] % 128)
    IN  IF b[4] >= 128 THEN lo + MinInt32 ELSE lo

\* the records serialize_flash_data is given: data_ptr and data_len
CodecData ==
    {<<NULL, 0>>, <<NULL, 1>>, <<"data", -1>>} \cup {<<"data", n>> : n \in 0..MaxLen}
CodecRecords ==
    {[valid |-> v, write_count |-> w, data_len |-> d[2], data_ptr |-> d[1]] :
        v \in {0, 1}, w \in {0, 1, 258, -1}, d \in CodecData}

\* the buffers it is given: their size and what they hold before the call
BufferSizes == {SerialHeader - 1, SerialHeader, SerialHeader + MaxLen}
FillBytes == {0, 171}

\* serialize_flash_data(data, buffer, buffer_size): the buffer afterwards
SerializeOutcomes(data, mem, buffer) ==
    LET buffer_size == Len(buffer)
        required_size == Add32(SerialHeader, data.data_len)
        header == <<data.valid>> \o Bytes32(data.write_count)
                                 \o Bytes32(data.data_len)
    IN  \* buffer_size < required_size: return, nothing written
        IF Gt32(required_size, buffer_size)
        THEN {[step |-> "serialized", buffer |-> buffer]}
        ELSE IF data.data_ptr # NULL /\ data.data_len # 0
        THEN IF data.data_len > 0 /\ data.data_len <= BufSize(data.data_ptr)
             THEN {[step |-> "serialized",
                    buffer |-> header
                               \o Payload(mem, data.data_ptr, data.data_len)
                               \o SubSeq(buffer, required_size + 1, buffer_size)]}
             \* memcpy of more bytes than the source and the buffer hold
             ELSE {[step |-> "fault", buffer |-> buffer]}
        ELSE {[step |-> "serialized",
               buffer |-> header \o SubSeq(buffer, SerialHeader + 1, buffer_size)]}

\* deserialize_flash_data on a buffer that holds the three fields: data
\* afterwards, payload the bytes of the block data_ptr points to
DeserializeRead(buffer) ==
    LET valid == buffer[1]
        write_count == Word32(SubSeq(buffer, SizeofValid + 1,
                                     SizeofValid + SizeofWord))
        data_len == Word32(SubSeq(buffer, SizeofValid + SizeofWord + 1,
                                  SerialHeader))
    IN  \* malloc returned NULL
        {[step |-> "deserialized",
          d |-> [valid |-> valid, write_count |-> write_count,
                 data_len |-> data_len, data_ptr |-> NULL, payload |-> << >>]]}
        \cup
        \* malloc(data_len) returned a block; 2^31 bytes and more are not to
        \* be had
        (IF data_len < 0 THEN {}
         ELSE IF SerialHeader + data_len <= Len(buffer)
         THEN {[step |-> "deserialized",
                d |-> [valid |-> valid, write_count |-> write_count,
                       data_len |-> data_len, data_ptr |-> "heap",
                       payload |-> SubSeq(buffer, SerialHeader + 1,
                                          SerialHeader + data_len)]]}
         \* memcpy reads behind the end of the buffer
         ELSE {[step |-> "read_fault",
                d |-> [valid |-> valid, write_count |-> write_count,
                       data_len |-> data_len, data_ptr |-> "heap",
                       payload |-> << >>]]})

NoRecord == [valid |-> 0, write_count |-> 0, data_len |-> 0,
             data_ptr |-> NULL, payload |-> << >>]

\* deserialize_flash_data(buffer, data).  The function is not told the
\* size of the buffer: from a buffer that ends inside the three fields it
\* reads on behind the end, which faults or finds whatever bytes lie there
DeserializeOutcomes(buffer) ==
    IF Len(buffer) >= SerialHeader THEN DeserializeRead(buffer)
    ELSE {[step |-> "read_fault", d |-> NoRecord]} \cup
         UNION {DeserializeRead(buffer \o [i \in 1..(SerialHeader - Len(buffer)) |-> b]) :
                    b \in FillBytes}

CodecInit ==
    /\ DeviceInit
    /\ \E r \in CodecRecords, n \in BufferSizes, b \in FillBytes :
            codec = [step |-> "start", r |-> r,
                     buffer |-> [i \in 1..n |-> b], d |-> NoRecord,
                     fill |-> b]

serialize_flash_data ==
    /\ codec.step = "start"
    /\ \E o \in SerializeOutcomes(codec.r, ram, codec.buffer) :
            codec' = [codec EXCEPT !.step = o.step, !.buffer = o.buffer]
    /\ UNCHANGED <<flash, ram, irq, pc, frame, op, res, calls, pre, out, ret, nest>>

deserialize_flash_data ==
    /\ codec.step = "serialized"
    /\ \E o \in DeserializeOutcomes(codec.buffer) :
            codec' = [codec EXCEPT !.step = o.step, !.d = o.d]
    /\ UNCHANGED <<flash, ram, irq, pc, frame, op, res, calls, pre, out, ret, nest>>

CodecNext == serialize_flash_data \/ deserialize_flash_data

CodecSpec == CodecInit /\ [][CodecNext]_vars

(***************************************************************************)
(* flash_write_safe called from the main program and from interrupt        *)
(* handlers of the same core.  A handler starts while interrupts are       *)
(* enabled and the call it pre-empts waits until the handler returns; a    *)
(* handler may itself be pre-empted.  Here the call is taken in two parts: *)
(* flash_write_safe up to its call of flash_write_safe_struct, which runs  *)
(* with interrupts as the caller has them, and the entry of                *)
(* flash_write_safe_struct, which disables them.                           *)
(***************************************************************************)
\* the calls that passed validation so far
Entered == Written([s \in Sectors |-> [write_count |-> nest.entered[s]]],
                   Sectors)

\* flash_write_safe up to the call of flash_write_safe_struct: the checks,
\* and the flash_data it passes on
flash_write_safe_call(offset, data, data_len) ==
    LET flash_offset == Add32(FLASH_TARGET_OFFSET, offset)
        err == WriteCheck(flash_offset, data, data_len)
    IN  /\ pc = "idle"
        /\ op' = [name |-> "flash_write_safe", offset |-> offset,
                  data |-> data, len |-> data_len]
        /\ pre' = flash
        /\ calls' = << >>
        /\ IF err # "OK"
           THEN /\ res' = err
                /\ UNCHANGED <<pc, frame, nest>>
           ELSE /\ Entered < MaxWrites
                /\ frame' = [offset |-> flash_offset,
                             hdr |-> [valid |-> 0, write_count |-> 0,
                                      data_len |-> data_len,
                                      data_ptr |-> data],
                             ints |-> irq]
                /\ pc' = "write_enter"
                /\ res' = "running"
                /\ nest' = [nest EXCEPT
                       !.entered[flash_offset] = @ + 1,
                       !.nested = @ \/ \E i \in 1..Len(nest.suspended) :
                           nest.suspended[i].frame.offset = flash_offset]
        /\ UNCHANGED <<flash, ram, irq, out, ret, codec>>

\* variant: save_and_disable_interrupts left out
flash_write_safe_struct_entry_Enabled ==
    /\ pc = "write_enter"
    /\ frame' = [frame EXCEPT
                    !.hdr = NewData(ReadMapped(flash, frame.offset),
                                    frame.hdr.data_ptr, frame.hdr.data_len),
                    !.ints = irq]
    /\ pc' = "write_erase"
    /\ calls' = << <<"read", frame.offset>> >>
    /\ UNCHANGED <<flash, ram, irq, op, res, pre, out, ret, codec, nest>>

\* flash_write_safe_struct from save_and_disable_interrupts to
\* new_data->valid = true
flash_write_safe_struct_entry ==
    /\ pc = "write_enter"
    /\ irq' = FALSE
    /\ frame' = [frame EXCEPT
                    !.hdr = NewData(ReadMapped(flash, frame.offset),
                                    frame.hdr.data_ptr, frame.hdr.data_len),
                    !.ints = irq]
    /\ pc' = "write_erase"
    /\ calls' = << <<"disable", frame.offset>>, <<"read", frame.offset>> >>
    /\ UNCHANGED <<flash, ram, op, res, pre, out, ret, codec, nest>>

\* an interrupt is taken: possible only while interrupts are enabled; the
\* running call is suspended and the handler starts
Interrupt ==
    /\ irq = TRUE
    /\ pc # "idle"
    /\ nest' = [nest EXCEPT !.suspended =
                   Append(@, [pc |-> pc, frame |-> frame, op |-> op,
                              res |-> res, calls |-> calls])]
    /\ pc' = "idle"
    /\ frame' = NoFrame
    /\ UNCHANGED <<flash, ram, irq, op, res, calls, pre, out, ret, codec>>

\* the handler returns and the call it pre-empted goes on
Return ==
    /\ pc = "idle"
    /\ nest.suspended # << >>
    /\ LET c == nest.suspended[Len(nest.suspended)]
       IN  /\ pc' = c.pc
           /\ frame' = c.frame
           /\ op' = c.op
           /\ res' = c.res
           /\ calls' = c.calls
    /\ nest' = [nest EXCEPT !.suspended = SubSeq(@, 1, Len(@) - 1)]
    /\ UNCHANGED <<flash, ram, irq, pre, out, ret, codec>>

InterruptNext ==
    \/ \E o \in AlignedOffsets, d \in DataArgs :
            flash_write_safe_call(o, d[1], d[2])
    \/ flash_write_safe_struct_entry
    \/ WriteErase
    \/ WriteProgram
    \/ Interrupt
    \/ Return

InterruptSpec == Init /\ [][InterruptNext]_vars

(***************************************************************************)
(* The write count of a block over successive writes: what                 *)
(* flash_write_safe_struct stores for each write_count it can find in the  *)
(* header, a uint32_t that holds whatever the block held before.            *)
(***************************************************************************)
\* how far from 0, 2^31 and 2^32 the counts found go
MaxCount == 16

\* current_data.write_count as read from the block: values at both ends of
\* the 32 bits and around the change of sign
PriorCounts ==
    UNION {{k, -1 - k, MaxInt32 - k, MinInt32 + k} : k \in 0..MaxCount}

CounterInit ==
    /\ DeviceInit
    /\ codec \in [step : {"count"}, prior : PriorCounts, stored : {0},
                  writes : {0}]

\* one write to the block: the count found is the one the write before has
\* stored, or the one the block held at first
StoreWriteCount ==
    /\ codec.step = "count"
    /\ codec.writes < MaxWrites
    /\ LET current == IF codec.writes = 0 THEN codec.prior ELSE codec.stored
       IN  codec' = [codec EXCEPT !.prior = current,
                                  !.stored = NextWriteCount(current),
                                  !.writes = @ + 1]
    /\ UNCHANGED <<flash, ram, irq, pc, frame, op, res, calls, pre, out, ret, nest>>

CounterSpec == CounterInit /\ [][StoreWriteCount]_vars

(***************************************************************************)
(* DeviceConfig and its codec (flash_ops_helper.c), and the save and        *)
(* recover sequence of test_save_and_recover_struct: serialize into a      *)
(* buffer, flash_write_safe, flash_read_safe, deserialize.  id and the     *)
(* float sensor_value are 32-bit words, name is an array of 10 bytes.      *)
(***************************************************************************)
\* sizeof(config->name)
SizeofName == 10

\* "Device1" in a char[10]
Device1 == <<68, 101, 118, 105, 99, 101, 49, 0, 0, 0>>

\* the values saved: 5123 and the bits of 98.6f as in the test, the extremes
\* of the words, and a name with no terminating 0
DeviceConfigs ==
    [id : {0, 5123, -1}, sensor_value : {0, 1120219955},
     name : {Device1, [i \in 1..SizeofName |-> 171]}]

NoConfig == [id |-> 0, sensor_value |-> 0, name |-> << >>]

\* variant: the buffer pointer not moved past sensor_value before the name
\* is read
DeserializeDeviceConfigNoAdvance(buffer) ==
    [id |-> Word32(SubSeq(buffer, 1, SizeofWord)),
     sensor_value |-> Word32(SubSeq(buffer, SizeofWord + 1, 2 * SizeofWord)),
     name |-> SubSeq(buffer, SizeofWord + 1, SizeofWord + SizeofName)]

\* deserialize_device_config(buffer, config): config afterwards
DeserializeDeviceConfig(buffer) ==
    [id |-> Word32(SubSeq(buffer, 1, SizeofWord)),
     sensor_value |-> Word32(SubSeq(buffer, SizeofWord + 1, 2 * SizeofWord)),
     name |-> SubSeq(buffer, 2 * SizeofWord + 1, 2 * SizeofWord + SizeofName)]

\* serialize_device_config(config, buffer): the buffer afterwards
SerializeDeviceConfig(config, buffer) ==
    Bytes32(config.id) \o Bytes32(config.sensor_value) \o config.name
        \o SubSeq(buffer, 2 * SizeofWord + SizeofName + 1, Len(buffer))

ConfigInit ==
    /\ flash = [s \in Sectors |-> Erased]
    /\ \E b \in FillBytes :
            ram = [p \in {ConfigBuffer} |-> [i \in 1..SizeofDeviceConfig |-> b]]
    /\ irq = TRUE
    /\ pc = "idle"
    /\ frame = NoFrame
    /\ op = NoOp
    /\ res = "none"
    /\ calls = << >>
    /\ pre = flash
    /\ out = << >>
    /\ ret = 0
    /\ nest = NoNest
    /\ \E c \in DeviceConfigs :
            codec = [step |-> "config", config |-> c, config11 |-> NoConfig]

serialize_device_config ==
    /\ codec.step = "config"
    /\ ram' = [ram EXCEPT ![ConfigBuffer] =
                    SerializeDeviceConfig(codec.config, ram[ConfigBuffer])]
    /\ codec' = [codec EXCEPT !.step = "serialized"]
    /\ UNCHANGED <<flash, irq, pc, frame, op, res, calls, pre, out, ret, nest>>

\* flash_write_safe(offset, device_config_buffer, sizeof(device_config_buffer))
SaveConfig ==
    /\ codec.step = "serialized"
    /\ op = NoOp
    /\ \E o \in AlignedOffsets :
            flash_write_safe(o, ConfigBuffer, SizeofDeviceConfig)

\* flash_read_safe(offset, device_config_buffer_read, total_size)
RecoverConfig ==
    /\ op.name = "flash_write_safe"
    /\ res = "OK"
    /\ flash_read_safe(op.offset, SizeofDeviceConfig)

deserialize_device_config ==
    /\ codec.step = "serialized"
    /\ op.name = "flash_read_safe"
    /\ res = "OK"
    /\ codec' = [codec EXCEPT !.step = "recovered",
                              !.config11 = DeserializeDeviceConfig(out)]
    /\ UNCHANGED <<flash, ram, irq, pc, frame, op, res, calls, pre, out, ret, nest>>

test_save_and_recover_struct ==
    \/ serialize_device_config
    \/ SaveConfig
    \/ WriteErase
    \/ WriteProgram
    \/ RecoverConfig
    \/ deserialize_device_config

ConfigSpec == ConfigInit /\ [][test_save_and_recover_struct]_vars

(***************************************************************************)
(* Vocabulary of the properties.                                           *)
(***************************************************************************)
PublicOps == {"flash_write_safe", "flash_read_safe", "flash_erase_safe",
              "get_flash_write_count", "get_flash_data_length"}

\* target_base + offset as the last call computed it
AbsoluteOffset == Add32(FLASH_TARGET_OFFSET, op.offset)

\* the header at the offset the last call addressed, now and at its entry
HeaderNow == ReadMapped(flash, AbsoluteOffset)
HeaderBefore == ReadMapped(pre, AbsoluteOffset)

\* target_base + offset + metadata_size > target_base + device_size for the
\* 32-bit offset o, computed in the integers: a pattern below 0 stands for
\* an offset of 2^31 or more
BeyondDevice(o) == o < 0 \/ o > FLASH_SIZE - METADATA_SIZE

NotBlockMultiple(a) == a % FLASH_SECTOR_SIZE # 0

\* the last call invoked neither the erase nor the program primitive
NoDestructiveCall ==
    \A i \in 1..Len(calls) : calls[i][1] \notin {"erase", "program"}

\* the payload the last flash_write_safe was given
WrittenPayload == Payload(ram, op.data, op.len)

(***************************************************************************)
(* C1                                                                      *)
(***************************************************************************)
\* C1 as claimed: a call of a public operation with an absolute offset that
\* is no multiple of the block size fails with MisalignedOffset whatever the
\* other arguments are, and invokes neither erase nor program.
C1_MisalignedWhateverArguments ==
    (op.name \in PublicOps /\ NotBlockMultiple(AbsoluteOffset))
        => (res = "MisalignedOffset" /\ NoDestructiveCall)

\* C1 as amended: such a call fails with MisalignedOffset, except that
\* flash_write_safe with a NULL data pointer or data_len == 0 fails with
\* NullOrEmptyPayload (that test comes first); in both cases neither erase
\* nor program is invoked and flash stays as it was.
C1_MisalignedRejected ==
    (op.name \in PublicOps /\ NotBlockMultiple(AbsoluteOffset))
        => /\ res = IF op.name = "flash_write_safe"
                       /\ (op.data = NULL \/ op.len = 0)
                    THEN "NullOrEmptyPayload" ELSE "MisalignedOffset"
           /\ NoDestructiveCall
           /\ flash = pre

C1_Witness ==
    /\ op.name = "flash_write_safe"
    /\ NotBlockMultiple(AbsoluteOffset)
    /\ op.data # NULL /\ op.len > 0
    /\ res = "MisalignedOffset"
    /\ \E s \in Sectors : flash[s].valid = 1

(***************************************************************************)
(* C2                                                                      *)
(***************************************************************************)
\* C2: when a successful flash_write_safe(offset, p) is followed directly by
\* flash_read_safe(offset, buf) with len(buf) >= len(p), the read succeeds
\* and the first len(p) bytes of buf are p.
C2_RoundTrip ==
    [][ ( /\ op.name = "flash_write_safe" /\ res = "OK"
          /\ op'.name = "flash_read_safe"
          /\ op'.offset = op.offset
          /\ op'.len >= op.len )
        => ( /\ res' = "OK"
             /\ SubSeq(out', 1, op.len) = WrittenPayload ) ]_vars

C2_Witness ==
    /\ op.name = "flash_read_safe"
    /\ res = "OK"
    /\ HeaderNow.valid = 1
    /\ HeaderNow.data_len = MaxLen
    /\ op.len > MaxLen
    /\ SubSeq(out, 1, MaxLen) = Payload(ram, HeaderNow.data_ptr, MaxLen)
    /\ out[1] # out[MaxLen]

(***************************************************************************)
(* C3                                                                      *)
(***************************************************************************)
\* C3 as claimed: after a successful flash_write_safe(offset, p) the bytes of
\* p are in the block behind the header, and flash_read_safe(offset, buf)
\* yields p whatever the RAM holds by then (after a reset, or after the
\* caller reused its buffer).
C3_PayloadSurvives ==
    (op.name = "flash_write_safe" /\ res = "OK" /\ ~BeyondDevice(op.offset))
        => /\ HeaderNow.tail = WrittenPayload
           /\ op.len \in BufferLens =>
                \A mem \in [RamBufs -> RamContents] :
                    \A r \in ReadOutcomes(flash, mem, op.offset, op.len) :
                        r.res = "OK" /\ r.out = WrittenPayload

(***************************************************************************)
(* C4                                                                      *)
(***************************************************************************)
\* C4 as claimed: across every successful flash_write_safe on a block of the
\* device the value get_flash_write_count returns for the block goes up by
\* exactly 1.
C4_CountUpByOne ==
    (op.name = "flash_write_safe" /\ res = "OK" /\ ~BeyondDevice(op.offset))
        => WriteCountOf(flash, op.offset) = Add32(WriteCountOf(pre, op.offset), 1)

(***************************************************************************)
(* C5                                                                      *)
(***************************************************************************)
\* C5: after a flash_erase_safe that passed validation,
\* get_flash_write_count returns what it returned before the erase.
C5_ErasePreservesCount ==
    (op.name = "flash_erase_safe" /\ res = "OK")
        => WriteCountOf(flash, op.offset) = WriteCountOf(pre, op.offset)

C5_Witness ==
    /\ op.name = "flash_erase_safe"
    /\ res = "OK"
    /\ HeaderBefore.valid = 1
    /\ WriteCountOf(flash, op.offset) = MaxWrites

(***************************************************************************)
(* C6                                                                      *)
(***************************************************************************)
\* C6: after a successful flash_erase_safe(offset), from any prior state of
\* the block, get_flash_data_length(offset) returns 0, the stored valid flag
\* is false, and flash_read_safe(offset, buf) fails with
\* InvalidOrUninitialized and leaves buf as it was.
C6_PostErase ==
    (op.name = "flash_erase_safe" /\ res = "OK")
        => /\ DataLengthOf(flash, op.offset) = 0
           /\ HeaderNow.valid = 0
           /\ \A n \in BufferLens :
                ReadOutcomes(flash, ram, op.offset, n) =
                    {[res |-> "InvalidOrUninitialized", out |-> Zeros(n)]}

C6_Witness ==
    /\ op.name = "flash_erase_safe"
    /\ res = "OK"
    /\ HeaderBefore.valid = 1
    /\ HeaderBefore.data_len = MaxLen
    /\ HeaderNow.data_len = 0

(***************************************************************************)
(* C7                                                                      *)
(***************************************************************************)
\* C7: flash_write_safe with a payload present, at an aligned offset, fails
\* with PayloadTooLarge when data_len > block_size - metadata_size, and
\* then no byte of flash has changed; with data_len equal to
\* block_size - metadata_size (and the offset in range) it is accepted.
C7_SizeInvariant ==
    (op.name = "flash_write_safe" /\ op.data # NULL
     /\ ~NotBlockMultiple(AbsoluteOffset))
        => /\ op.len > FLASH_SECTOR_SIZE - METADATA_SIZE
                => (res = "PayloadTooLarge" /\ flash = pre /\ calls = << >>)
           /\ (op.len = FLASH_SECTOR_SIZE - METADATA_SIZE
               /\ ~BeyondLimits(AbsoluteOffset))
                => res \in {"running", "OK"}
           /\ res = "OK" => HeaderNow.data_len = op.len

C7_Witness ==
    /\ op.name = "flash_write_safe"
    /\ op.len = FLASH_SECTOR_SIZE - METADATA_SIZE
    /\ res = "OK"
    /\ HeaderNow.valid = 1
    /\ HeaderNow.data_len = FLASH_SECTOR_SIZE - METADATA_SIZE

(***************************************************************************)
(* C8                                                                      *)
(***************************************************************************)
\* C8: flash_write_safe with a NULL data pointer or with data_len == 0 fails
\* with NullOrEmptyPayload, invokes neither erase nor program, and leaves
\* the block and its write count as they were.
C8_NullOrEmptyRejected ==
    (op.name = "flash_write_safe" /\ (op.data = NULL \/ op.len = 0))
        => /\ res = "NullOrEmptyPayload"
           /\ NoDestructiveCall
           /\ flash = pre
           /\ WriteCountOf(flash, op.offset) = WriteCountOf(pre, op.offset)

C8_Witness ==
    /\ op.name = "flash_write_safe"
    /\ op.data # NULL /\ op.len = 0
    /\ res = "NullOrEmptyPayload"
    /\ HeaderNow.valid = 1

(***************************************************************************)
(* C9                                                                      *)
(***************************************************************************)
\* C9 as claimed: for every offset whose absolute offset + metadata_size
\* exceeds target_base + device_size, flash_write_safe, flash_read_safe and
\* flash_erase_safe fail with OutOfRange and invoke no primitive, not even
\* a read of the mapped window.  (Stated for the calls that pass the tests
\* that come before the range test: aligned, payload present and not too
\* large.)
C9_OutOfRangeRejected ==
    (/\ op.name \in {"flash_write_safe", "flash_read_safe", "flash_erase_safe"}
     /\ BeyondDevice(op.offset)
     /\ ~NotBlockMultiple(AbsoluteOffset)
     /\ op.name = "flash_write_safe"
            => (op.data # NULL /\ op.len \in 1..(FLASH_SECTOR_SIZE - METADATA_SIZE)))
        => (res = "OutOfRange" /\ calls = << >>)

(***************************************************************************)
(* C10                                                                     *)
(***************************************************************************)
\* C10: whenever a public operation ends in an error, flash is what it was
\* when the operation was called.
C10_ErrorLeavesFlash ==
    (op.name \in PublicOps /\ res \in Errors) => flash = pre

C10_Witness ==
    /\ op.name = "flash_erase_safe"
    /\ res \in Errors
    /\ \E s \in Sectors : flash[s].valid = 1 /\ flash[s].write_count = MaxWrites

(***************************************************************************)
(* C11                                                                     *)
(***************************************************************************)
\* a block of the device that was never programmed, addressed by a valid
\* offset
OnUnwrittenBlock ==
    /\ ~BeyondDevice(op.offset)
    /\ ~NotBlockMultiple(AbsoluteOffset)
    /\ HeaderBefore = Erased

\* C11 as claimed: flash_read_safe on a block that was never written fails
\* with InvalidOrUninitialized and leaves the caller's buffer as it was.
C11_UnwrittenReadFails ==
    (op.name = "flash_read_safe" /\ OnUnwrittenBlock)
        => (res = "InvalidOrUninitialized" /\ out = Zeros(op.len))

(***************************************************************************)
(* C12                                                                     *)
(***************************************************************************)
\* C12 as claimed: for a block that was never written,
\* get_flash_write_count and get_flash_data_length return 0.
C12_UnwrittenQueriesZero ==
    (op.name \in {"get_flash_write_count", "get_flash_data_length"}
     /\ OnUnwrittenBlock)
        => ret = 0

C14_FirstWriteCountsOne ==
    (op.name = "flash_write_safe" /\ res = "OK")
        => /\ HeaderBefore.write_count = -1
                => WriteCountOf(flash, op.offset) = 1
           /\ (HeaderBefore.valid = 0 /\ HeaderBefore.write_count = 1)
                => WriteCountOf(flash, op.offset) = 2

C14_Witness ==
    /\ op.name = "flash_write_safe"
    /\ res = "OK"
    /\ HeaderBefore.valid = 0
    /\ HeaderBefore.write_count = 1
    /\ HeaderNow.valid = 1
    /\ WriteCountOf(flash, op.offset) = 2

(***************************************************************************)
(* C15                                                                     *)
(***************************************************************************)
\* C15 as claimed: flash_erase_safe on a block that was never written
\* stores a header with valid false, data_len 0 and write_count 0, and
\* get_flash_write_count returns 0 afterwards.
C15_EraseOfUnwrittenStoresZero ==
    (op.name = "flash_erase_safe" /\ res = "OK" /\ OnUnwrittenBlock)
        => /\ HeaderNow.valid = 0
           /\ HeaderNow.data_len = 0
           /\ HeaderNow.write_count = 0
           /\ WriteCountOf(flash, op.offset) = 0

(***************************************************************************)
(* C16                                                                     *)
(***************************************************************************)
\* C16: after a successful flash_write_safe(offset, data, n) the header in
\* the block has valid true and data_len n, and get_flash_data_length(offset)
\* returns n.
C16_WriteStoresLength ==
    (op.name = "flash_write_safe" /\ res = "OK")
        => /\ HeaderNow.valid = 1
           /\ HeaderNow.data_len = op.len
           /\ DataLengthOf(flash, op.offset) = op.len

C16_Witness ==
    /\ op.name = "flash_write_safe"
    /\ res = "OK"
    /\ op.data \in RamBufs
    /\ op.len = MaxLen
    /\ HeaderBefore.valid = 1
    /\ HeaderBefore.data_len # MaxLen
    /\ DataLengthOf(flash, op.offset) = MaxLen

(***************************************************************************)
(* C17                                                                     *)
(***************************************************************************)
\* min(buffer_len, data_len) of the last flash_read_safe, on unsigned words
CopyLen ==
    IF HeaderNow.data_len < 0 \/ op.len <= HeaderNow.data_len
    THEN op.len ELSE HeaderNow.data_len

\* C17: a successful flash_read_safe(offset, buffer, buffer_len) leaves the
\* buffer at its length, with its first min(buffer_len, data_len) bytes
\* those found at data_ptr and every byte behind them as it was.
C17_CopiesMin ==
    (op.name = "flash_read_safe" /\ res = "OK")
        => /\ Len(out) = op.len
           /\ \A i \in 1..op.len :
                IF i <= CopyLen
                THEN /\ out[i] # 0
                     /\ Mapped(HeaderNow.data_ptr)
                            => out[i] = ByteAt(ram, HeaderNow.data_ptr, i)
                ELSE out[i] = 0

C17_Witness ==
    /\ op.name = "flash_read_safe"
    /\ res = "OK"
    /\ HeaderNow.valid = 1
    /\ HeaderNow.data_len = 1
    /\ op.len = MaxLen + 1
    /\ out[1] = ByteAt(ram, HeaderNow.data_ptr, 1)
    /\ \A i \in 2..(MaxLen + 1) : out[i] = 0
    /\ ram[HeaderNow.data_ptr][2] # 0

(***************************************************************************)
(* C18                                                                     *)
(***************************************************************************)
\* C18: flash_write_safe (with flash_write_safe_struct) and
\* flash_erase_safe save the interrupt state they are entered with, and
\* whenever one of them returns, by an error branch or after the program
\* step, interrupts are in that state again; interrupts an operation has
\* disabled are enabled again later.
C18_InterruptsRestored ==
    /\ [][ (op'.name \in {"flash_write_safe", "flash_erase_safe"})
            => /\ (pc = "idle" /\ pc' = "idle") => irq' = irq
               /\ (pc = "idle" /\ pc' # "idle") => frame'.ints = irq
               /\ (pc # "idle" /\ pc' # "idle") => frame'.ints = frame.ints
               /\ (pc # "idle" /\ pc' = "idle") => irq' = frame.ints ]_vars
    /\ (irq = FALSE) ~> (irq = TRUE)

C18_Witness ==
    /\ op.name = "flash_erase_safe"
    /\ res = "OK"
    /\ Len(calls) = 5
    /\ pc = "idle"
    /\ irq = TRUE

(***************************************************************************)
(* C19                                                                     *)
(***************************************************************************)
\* C19: after a reset that fell between the erase and the program step of
\* flash_write_safe or flash_erase_safe, the block is erased: its header is
\* all-ones, so it is not the record the block held, not the new record, and
\* not a header with valid false.
C19_PowerLossLeavesErased ==
    (op.name = "reset" /\ res \in {"write_program", "erase_program"})
        => /\ HeaderNow = Erased
           /\ HeaderNow.valid \notin {0, 1}
           /\ HeaderBefore # Erased => HeaderNow # HeaderBefore

C19_Witness ==
    /\ op.name = "reset"
    /\ res = "write_program"
    /\ HeaderBefore.valid = 1
    /\ HeaderBefore.write_count = 1
    /\ HeaderNow = Erased

DestructiveCalls ==
    {calls[i][2] : i \in {j \in 1..Len(calls) : calls[j][1] \in {"erase", "program"}}}

\* C23 as claimed: every erase or program call, whichever function of
\* flash_ops.h it is reached from, is made at an address that passed the
\* alignment and the range test, and for a write with a data_len that
\* passed the size test.
C23_DestructiveOnlyValidated ==
    \A a \in DestructiveCalls :
        /\ ~NotBlockMultiple(a)
        /\ ~BeyondLimits(a)
        /\ op.name \in {"flash_write_safe", "flash_write_safe_struct"}
                => op.len \in 1..(FLASH_SECTOR_SIZE - METADATA_SIZE)

(***************************************************************************)
(* C24                                                                     *)
(***************************************************************************)
\* C24 as claimed: for an operation that passed validation,
\* target_base + offset did not wrap around modulo 2^32, and no erase or
\* program call is made below target_base.
C24_NoWrapAround ==
    (op.name \in PublicOps /\ res \in {"running", "OK"})
        => /\ ~(op.offset < 0 /\ op.offset >= -FLASH_TARGET_OFFSET)
           /\ \A a \in DestructiveCalls : ~Gt32(FLASH_TARGET_OFFSET, a)

(***************************************************************************)
(* C25                                                                     *)
(***************************************************************************)
\* C25: a flash_write_safe request with a payload present reports the
\* first failing test in the order alignment, payload size, range, however
\* many of them fail.
C25_FirstFailingCheck ==
    (op.name = "flash_write_safe" /\ op.data # NULL /\ op.len # 0)
        => IF NotBlockMultiple(AbsoluteOffset) THEN res = "MisalignedOffset"
           ELSE IF op.len < 0 \/ op.len > FLASH_SECTOR_SIZE - METADATA_SIZE
                THEN res = "PayloadTooLarge"
           ELSE IF BeyondLimits(AbsoluteOffset) THEN res = "OutOfRange"
           ELSE res \in {"running", "OK"}

C25_Witness ==
    /\ op.name = "flash_write_safe"
    /\ op.data # NULL
    /\ op.len > FLASH_SECTOR_SIZE - METADATA_SIZE
    /\ ~NotBlockMultiple(AbsoluteOffset)
    /\ BeyondLimits(AbsoluteOffset)
    /\ res = "PayloadTooLarge"

(***************************************************************************)
(* C26                                                                     *)
(***************************************************************************)
\* C26: while an erase + program pair is under way interrupts are disabled,
\* and every erase and program call of an operation comes after its
\* save_and_disable_interrupts and before any restore_interrupts.
C26_CriticalSection ==
    /\ pc # "idle" => irq = FALSE
    /\ \A i \in 1..Len(calls) :
            calls[i][1] \in {"erase", "program"}
                => /\ calls[1][1] = "disable"
                   /\ \A j \in 1..i : calls[j][1] # "restore"

C26_Witness ==
    /\ pc = "write_program"
    /\ irq = FALSE
    /\ Len(calls) = 3
    /\ calls[3][1] = "erase"
    /\ HeaderBefore.valid = 1

(***************************************************************************)
(* C27                                                                     *)
(***************************************************************************)
\* C27: a flash_write_safe or flash_erase_safe that ends in an error has
\* made no call at all, save_and_disable_interrupts included, and no error
\* arises while interrupts are disabled.
C27_DisabledAfterValidation ==
    /\ (op.name \in {"flash_write_safe", "flash_erase_safe"} /\ res \in Errors)
            => (calls = << >> /\ irq = TRUE)
    /\ irq = FALSE => res = "running"

C27_Witness ==
    /\ op.name = "flash_erase_safe"
    /\ res = "OutOfRange"
    /\ calls = << >>
    /\ irq = TRUE
    /\ \E s \in Sectors : flash[s].valid = 0 /\ flash[s].write_count = 1

(***************************************************************************)
(* C28                                                                     *)
(***************************************************************************)
\* C28: flash_read_safe (with flash_read_safe_struct),
\* get_flash_write_count and get_flash_data_length leave every block as it
\* was, call nothing but the read of the mapped window, and leave
\* interrupts enabled.
C28_ReadsNonDestructive ==
    (op.name \in {"flash_read_safe", "get_flash_write_count",
                  "get_flash_data_length"})
        => /\ flash = pre
           /\ \A i \in 1..Len(calls) : calls[i][1] = "read"
           /\ irq = TRUE
           /\ pc = "idle"

C28_Witness ==
    /\ op.name = "get_flash_data_length"
    /\ res = "OK"
    /\ ret = MaxLen
    /\ HeaderNow.valid = 1
    /\ flash = pre
    /\ calls = << <<"read", AbsoluteOffset>> >>

(***************************************************************************)
(* C29                                                                     *)
(***************************************************************************)
\* the state of a block, from the valid byte of its header
BlockState(h) ==
    IF h.valid = 1 THEN "Valid" ELSE IF h.valid = 0 THEN "Invalid" ELSE "Unwritten"

\* the write count a header stands for, the all-ones word counted as 0
CountOf(h) == IF h.write_count = -1 THEN 0 ELSE h.write_count

\* the last call was a write or an erase that ran to its end
Completed ==
    /\ op.name \in {"flash_write_safe", "flash_erase_safe"}
    /\ res = "OK"

\* C29 as claimed: across a completed write or erase a block stays in its
\* state or goes Unwritten -> Valid, Valid -> Invalid or Invalid -> Valid;
\* the count goes up on the way into Valid and not across an erase.
C29_OnlyThreeTransitions ==
    (Completed /\ ~BeyondDevice(op.offset)) =>
        \A s \in Sectors :
            /\ \/ BlockState(flash[s]) = BlockState(pre[s])
               \/ <<BlockState(pre[s]), BlockState(flash[s])>> \in
                    {<<"Unwritten", "Valid">>, <<"Valid", "Invalid">>,
                     <<"Invalid", "Valid">>}
            /\ (BlockState(flash[s]) = "Valid" /\ flash[s] # pre[s])
                    => CountOf(flash[s]) > CountOf(pre[s])
            /\ op.name = "flash_erase_safe"
                    => CountOf(flash[s]) <= CountOf(pre[s])

\* C29 as amended: a completed write leaves its block Valid, from Unwritten,
\* Valid or Invalid, with the count one above the count found (all-ones
\* counted as 0); a completed erase leaves its block Invalid, from
\* Unwritten, Valid or Invalid, with the write_count field as found; every
\* other block stays as it was.
C29_BlockTransitions ==
    Completed =>
        \A s \in Sectors :
            IF s # AbsoluteOffset THEN flash[s] = pre[s]
            ELSE IF op.name = "flash_write_safe"
            THEN /\ BlockState(flash[s]) = "Valid"
                 /\ flash[s].write_count = CountOf(pre[s]) + 1
            ELSE /\ BlockState(flash[s]) = "Invalid"
                 /\ flash[s].write_count = pre[s].write_count

C29_Witness ==
    /\ Completed
    /\ op.name = "flash_erase_safe"
    /\ BlockState(HeaderBefore) = "Unwritten"
    /\ BlockState(HeaderNow) = "Invalid"
    /\ \E s \in Sectors : BlockState(flash[s]) = "Valid" /\ CountOf(flash[s]) = MaxWrites

(***************************************************************************)
(* C30                                                                     *)
(***************************************************************************)
\* C30 as claimed: every header programmed into a block has
\* metadata_size + data_len <= block_size, and data_len = 0 when valid is
\* false.
C30_HeaderFitsBlock ==
    \A s \in Sectors :
        flash[s] # Erased
            => /\ flash[s].data_len >= 0
               /\ METADATA_SIZE + flash[s].data_len <= FLASH_SECTOR_SIZE
               /\ flash[s].valid = 0 => flash[s].data_len = 0

(***************************************************************************)
(* C21                                                                     *)
(***************************************************************************)
\* C21 as claimed: deserialize_flash_data on a buffer shorter than the
\* metadata fails as MalformedRecord, so it neither faults nor yields a
\* record from such a buffer; and the payload it yields is never longer
\* than the data_len it read.
C21_ShortBufferMalformed ==
    /\ codec.step \in {"deserialized", "read_fault"}
            => Len(codec.buffer) >= SizeofValid + 2 * SizeofWord
    /\ codec.step = "deserialized"
            => (codec.d.data_len < 0 \/ Len(codec.d.payload) <= codec.d.data_len)

(***************************************************************************)
(* C22                                                                     *)
(***************************************************************************)
\* C22: a DeviceConfig serialized, written with flash_write_safe, read back
\* at once with flash_read_safe at the same aligned offset and deserialized
\* has the id, the sensor_value and the name of the original.
C22_ConfigRoundTrip ==
    codec.step = "recovered"
        => /\ codec.config11.id = codec.config.id
           /\ codec.config11.sensor_value = codec.config.sensor_value
           /\ codec.config11.name = codec.config.name

C22_Witness ==
    /\ codec.step = "recovered"
    /\ codec.config.id = 5123
    /\ codec.config.name = Device1
    /\ codec.config.sensor_value # 0
    /\ codec.config11 = codec.config
    /\ HeaderNow.valid = 1
    /\ HeaderNow.data_len = SizeofDeviceConfig
    /\ Len(out) = SizeofDeviceConfig

(***************************************************************************)
(* The order of the primitive calls.                                       *)
(***************************************************************************)
\* the calls of the operation that read, erase or program flash, in order
FlashCalls == SelectSeq(calls, LAMBDA c : c[1] \in {"read", "erase", "program"})

\* C31: within a successful flash_write_safe or flash_erase_safe the
\* primitives are called in the order read the header, erase the block,
\* program the block, once each and all on the same block; and at no point
\* of any operation has a block been programmed that the operation had not
\* erased before
C31_PrimitiveOrder ==
    /\ (op.name \in {"flash_write_safe", "flash_erase_safe"} /\ res = "OK")
        => FlashCalls = << <<"read", SectorStart(AbsoluteOffset)>>,
                           <<"erase", SectorStart(AbsoluteOffset)>>,
                           <<"program", SectorStart(AbsoluteOffset)>> >>
    /\ \A i \in 1..Len(calls) :
            calls[i][1] = "program"
            => \E j \in 1..(i - 1) : calls[j] = <<"erase", calls[i][2]>>

\* an erase of a written block that went through all three calls
C31_Witness ==
    /\ op.name = "flash_erase_safe"
    /\ res = "OK"
    /\ Len(FlashCalls) = 3
    /\ FlashCalls[3][1] = "program"
    /\ HeaderBefore.valid = 1


(***************************************************************************)
(* The frame of a write and of an erase.                                   *)
(***************************************************************************)
\* the blocks other than the one the operation was called on
OtherBlocks == DOMAIN flash \ {SectorStart(AbsoluteOffset)}

\* C32: a flash_write_safe or flash_erase_safe that passed validation, at
\* each of its steps and when it has returned, has left every block other
\* than the one at its absolute offset as it was when it was called
C32_OtherBlocksUnchanged ==
    (op.name \in {"flash_write_safe", "flash_erase_safe"}
     /\ res \in {"running", "OK"})
    => \A s \in OtherBlocks : flash[s] = pre[s]

\* a completed write that changed its block while another block held a
\* record
C32_Witness ==
    /\ op.name = "flash_write_safe"
    /\ res = "OK"
    /\ HeaderNow # HeaderBefore
    /\ \E s \in OtherBlocks : pre[s].valid = 1 /\ flash[s] = pre[s]


(***************************************************************************)
(* The write count and the value of an unwritten block.                    *)
(***************************************************************************)
\* C33: whatever 32-bit write_count a write finds in the block, the
\* write_count it stores is not the all-ones value of an unwritten block,
\* and a write to a block that a write has counted before does not store 1
\* again.  Fails: a write that finds 0xFFFFFFFE stores 0xFFFFFFFF, and the
\* write after it stores 1.
C33_NeverStoresSentinel ==
    codec.writes > 0
    => /\ codec.stored # -1
       /\ (codec.writes > 1 /\ codec.prior # 0) => codec.stored # 1


(***************************************************************************)
(* Writes from interrupt handlers.                                         *)
(***************************************************************************)
\* the calls, running or pre-empted, that passed validation on block s and
\* have not yet entered flash_write_safe_struct
Waiting(s) ==
    Cardinality({i \in 1..Len(nest.suspended) :
                    /\ nest.suspended[i].pc = "write_enter"
                    /\ nest.suspended[i].frame.offset = s})
    + (IF pc = "write_enter" /\ frame.offset = s THEN 1 ELSE 0)

\* no call is running or pre-empted
Quiescent == pc = "idle" /\ nest.suspended = << >>

\* C34: flash_write_safe calls of the main program and of interrupt
\* handlers on the same core lose no increment.  Whenever interrupts are
\* enabled, each block's write count is the number of calls on it that
\* have gone through flash_write_safe_struct, and a block written at least
\* once holds one complete record; so when all k calls have returned the
\* count is k, however they were nested.
C34_NoLostIncrement ==
    /\ irq = TRUE
        => \A s \in Sectors :
              /\ CountOf(flash[s]) = nest.entered[s] - Waiting(s)
              /\ nest.entered[s] - Waiting(s) > 0
                 => /\ flash[s].valid = 1
                    /\ flash[s].data_len > 0
                    /\ flash[s].data_ptr \in RamBufs \cup {"const_data"}
    /\ Quiescent => \A s \in Sectors : CountOf(flash[s]) = nest.entered[s]

\* all calls have returned, two of them on the same block, one made by a
\* handler that pre-empted the other
C34_Witness ==
    /\ Quiescent
    /\ nest.nested
    /\ \E s \in Sectors : nest.entered[s] = 2 /\ flash[s].write_count = 2


(***************************************************************************)
(* Erasing twice.                                                          *)
(***************************************************************************)
\* a block as a completed flash_erase_safe leaves it; no other operation
\* leaves valid = 0 in a block
LeftByErase(h) ==
    /\ h.valid = 0
    /\ h.data_len = 0
    /\ h.data_ptr = NULL
    /\ h.tail = << >>

\* C35: flash_erase_safe is idempotent.  A completed flash_erase_safe leaves
\* valid = 0, data_len = 0 and the write_count it found; and one that is
\* called on a block in the state a flash_erase_safe has left leaves all of
\* flash as it found it.
C35_EraseIdempotent ==
    (op.name = "flash_erase_safe" /\ res = "OK")
    => /\ LeftByErase(HeaderNow)
       /\ HeaderNow.write_count = HeaderBefore.write_count
       /\ LeftByErase(HeaderBefore) => flash = pre

\* the second of two erases of a block that was written once before
C35_Witness ==
    /\ op.name = "flash_erase_safe"
    /\ res = "OK"
    /\ LeftByErase(HeaderBefore)
    /\ HeaderBefore.write_count = 1
    /\ flash = pre


(***************************************************************************)
(* What serialize_flash_data writes.                                       *)
(***************************************************************************)
\* buffer_size is smaller than the sum of the three field sizes and
\* data_len, the sum taken without wrapping (a negative data_len stands for
\* 2^31 and more)
BufferTooSmall ==
    \/ codec.r.data_len < 0
    \/ Len(codec.buffer) < SerialHeader + codec.r.data_len

\* the buffer as it was given to serialize_flash_data, from byte i on
Untouched(i) == [j \in 1..(Len(codec.buffer) - i + 1) |-> codec.fill]

\* C36: serialize_flash_data returns; into a buffer smaller than the three
\* fields and data_len bytes together it has written nothing, and into any
\* other it has written valid, write_count, data_len and the data_len bytes
\* of the payload, in this order, and nothing behind them.  Fails: with
\* data_ptr NULL and data_len above 0 only the three fields are written, and
\* with data_len of 2^32 - 9 and more the size wraps and the copy runs
\* beyond the buffer.
C36_SerializeExact ==
    codec.step \in {"serialized", "fault"}
    => /\ codec.step = "serialized"
       /\ codec.buffer =
            IF BufferTooSmall THEN Untouched(1)
            ELSE <<codec.r.valid>> \o Bytes32(codec.r.write_count)
                                  \o Bytes32(codec.r.data_len)
                                  \o Payload(ram, codec.r.data_ptr, codec.r.data_len)
                                  \o Untouched(SerialHeader + codec.r.data_len + 1)


(***************************************************************************)
(* sector_start in flash_erase_safe.                                       *)
(***************************************************************************)
\* 32-bit offsets around 0, the end of the region, 2^31 and the offset at
\* which FLASH_TARGET_OFFSET + offset wraps: multiples of the sector size
\* and their neighbours
SweepOffsets ==
    {Add32(Add32(b, k * FLASH_SECTOR_SIZE), d) :
        b \in {0, FLASH_SIZE, MinInt32, -FLASH_TARGET_OFFSET},
        k \in -2..2,
        d \in {-METADATA_SIZE, -1, 0, 1, METADATA_SIZE}}

\* C37: in flash_erase_safe, for an offset that has passed the alignment
\* and the range check, sector_start is the absolute offset that was
\* checked and is not beyond the limit tested with interrupts disabled:
\* every call of a flash_erase_safe is made on that offset, the calls never
\* end after the disabling of interrupts with the restoring alone, and the
\* same holds for the offsets at the edges of the 32 bits.
C37_SectorStartIsOffset ==
    /\ op.name = "flash_erase_safe"
        => /\ \A i \in 1..Len(calls) : calls[i][2] = AbsoluteOffset
           /\ Len(calls) >= 2 => calls[2][1] = "read"
           /\ pc # "idle" => frame.offset = AbsoluteOffset
    /\ \A o \in SweepOffsets :
          LET flash_offset == Add32(FLASH_TARGET_OFFSET, o)
          IN  OffsetCheck(flash_offset) = "OK"
              => /\ SectorStart(flash_offset) = flash_offset
                 /\ ~SectorBeyond(SectorStart(flash_offset))

\* an erase running on the block the wrapped offset stands for
C37_Witness ==
    /\ op.name = "flash_erase_safe"
    /\ op.offset = -FLASH_TARGET_OFFSET
    /\ pc = "erase_program"
    /\ frame.offset = 0
    /\ \E o \in SweepOffsets :
          /\ o \notin Offsets
          /\ OffsetCheck(Add32(FLASH_TARGET_OFFSET, o)) = "OK"

=============================================================================
